---- MODULE Spec2Model ----
(***************************************************************************)
(* Model of src/app.py: the extract / transform / load pipeline that maps  *)
(* GL transaction records to subledger account codes.                      *)
(*                                                                         *)
(* Strings are sequences of one-character strings, so that strip, upper,   *)
(* substring tests, '*'-joining and splitting are computed and not assumed.*)
(* A pandas cell is [isna, val]: NaN or a string.  A float is its decimal  *)
(* value in thousandths ("mills"); the two rounding routines the code uses *)
(* (Python's round and numpy's round) are modelled separately, with the    *)
(* IEEE-754 facts that decide a half-way case.                             *)
(***************************************************************************)
EXTENDS Integers, Sequences, FiniteSets

VARIABLES csv_file, mapping_files, product_file, pc, df, maps, product_df,
          summary, unmatched, melted, msg

vars == <<csv_file, mapping_files, product_file, pc, df, maps, product_df,
          summary, unmatched, melted, msg>>

(***************************************************************************)
(* Bounds                                                                  *)
(***************************************************************************)
MaxRecords == 2
MaxRows == 2

(***************************************************************************)
(* Strings                                                                 *)
(***************************************************************************)
Lowers == <<"a","b","c","d","e","f","g","h","i","j","k","l","m",
            "n","o","p","q","r","s","t","u","v","w","x","y","z">>
Uppers == <<"A","B","C","D","E","F","G","H","I","J","K","L","M",
            "N","O","P","Q","R","S","T","U","V","W","X","Y","Z">>

UpperChar(c) ==
    IF \E i \in 1..26 : Lowers[i] = c
    THEN Uppers[CHOOSE i \in 1..26 : Lowers[i] = c] ELSE c

LowerChar(c) ==
    IF \E i \in 1..26 : Uppers[i] = c
    THEN Lowers[CHOOSE i \in 1..26 : Uppers[i] = c] ELSE c

Upper(s) == [i \in 1..Len(s) |-> UpperChar(s[i])]
Lower(s) == [i \in 1..Len(s) |-> LowerChar(s[i])]

RECURSIVE LStrip(_)
LStrip(s) == IF s # <<>> /\ Head(s) = " " THEN LStrip(Tail(s)) ELSE s

RECURSIVE RStrip(_)
RStrip(s) ==
    IF s # <<>> /\ s[Len(s)] = " " THEN RStrip(SubSeq(s, 1, Len(s) - 1)) ELSE s

Strip(s) == RStrip(LStrip(s))

\* `sub in s` of Python
Contains(sub, s) ==
    \E i \in 1..(Len(s) - Len(sub) + 1) : SubSeq(s, i, i + Len(sub) - 1) = sub

RECURSIVE Join(_)
\* segs[1] + "*" + segs[2] + ... of a non-empty sequence of strings
Join(segs) ==
    IF Len(segs) = 1 THEN segs[1]
    ELSE segs[1] \o <<"*">> \o Join(Tail(segs))

RECURSIVE Split(_)
\* s.split("*")
Split(s) ==
    IF \A i \in 1..Len(s) : s[i] # "*" THEN <<s>>
    ELSE LET k == CHOOSE i \in 1..Len(s) :
                      s[i] = "*" /\ \A j \in 1..(i - 1) : s[j] # "*"
         IN  <<SubSeq(s, 1, k - 1)>> \o Split(SubSeq(s, k + 1, Len(s)))

(***************************************************************************)
(* pandas cells                                                            *)
(***************************************************************************)
NaN == [isna |-> TRUE, val |-> <<>>]
Str(s) == [isna |-> FALSE, val |-> s]

\* Series.astype(str): NaN becomes the text "nan"
AsTypeStr(c) == IF c.isna THEN <<"n","a","n">> ELSE c.val

\* Series.fillna(v)
FillNa(c, v) == IF c.isna THEN Str(v) ELSE c

clean_str(val) ==
    IF val.isna \/ val.val = <<>> THEN <<>> ELSE Upper(Strip(val.val))

(***************************************************************************)
(* Numbers.  A float is its decimal value in mills (1/1000).               *)
(***************************************************************************)
Digits == <<"0","1","2","3","4","5","6","7","8","9">>
IsDigit(c) == \E i \in 1..10 : Digits[i] = c
DigitVal(c) == (CHOOSE i \in 1..10 : Digits[i] = c) - 1

RECURSIVE DigitsVal(_)
DigitsVal(s) ==
    IF s = <<>> THEN 0
    ELSE DigitsVal(SubSeq(s, 1, Len(s) - 1)) * 10 + DigitVal(s[Len(s)])

Abs(n) == IF n < 0 THEN 0 - n ELSE n

\* The decimal literals pd.to_numeric parses, as far as the model's amounts
\* need them: [-]digits[.digits], with at most three decimals.
IsNumeric(s) ==
    LET u == IF s # <<>> /\ Head(s) = "-" THEN Tail(s) ELSE s
        dots == {i \in 1..Len(u) : u[i] = "."}
    IN  /\ u # <<>>
        /\ Cardinality(dots) <= 1
        /\ \A i \in (1..Len(u)) \ dots : IsDigit(u[i])
        /\ \E i \in (1..Len(u)) \ dots : TRUE
        /\ \A d \in dots : Len(u) - d <= 3

ParseMills(s) ==
    LET neg == Head(s) = "-"
        u == IF neg THEN Tail(s) ELSE s
        d == IF \E i \in 1..Len(u) : u[i] = "."
             THEN CHOOSE i \in 1..Len(u) : u[i] = "." ELSE Len(u) + 1
        whole == SubSeq(u, 1, d - 1)
        frac == SubSeq(u, d + 1, Len(u))
        pad == frac \o SubSeq(<<"0","0","0">>, 1, 3 - Len(frac))
        v == DigitsVal(whole) * 1000 + DigitsVal(pad)
    IN  IF neg THEN 0 - v ELSE v

\* pd.to_numeric(col.replace("", 0), errors="coerce").fillna(0)
to_numeric(s) == IF s = <<>> THEN 0 ELSE IF IsNumeric(s) THEN ParseMills(s) ELSE 0

\* IEEE-754 binary64 facts of the half-way amounts below 0.1 (|x| = m/1000,
\* m = 5, 15, ..., 95): the amounts whose nearest double lies above the
\* decimal value, and the amounts for which the product x * 100.0 is
\* exactly the half-way value.  No other half-way amount is in the domain.
Float64Above == {5, 25, 35, 55, 65, 85, 95}
Float64ScaledTie == {5, 15, 25, 45, 55, 65, 75, 85, 95}

\* Python's round(x, 2) for x >= 0: correctly rounded from the double
PyRoundAbs(a) ==
    LET q == a \div 10
        r == a % 10
    IN  IF r < 5 THEN q * 10
        ELSE IF r > 5 THEN (q + 1) * 10
        ELSE IF a \in Float64Above THEN (q + 1) * 10 ELSE q * 10

PyRound2(m) == IF m < 0 THEN 0 - PyRoundAbs(0 - m) ELSE PyRoundAbs(m)

\* numpy's around(x, 2) for x >= 0: rint(x * 100.0) / 100.0, rint rounding
\* an exact half to even
NpRoundAbs(a) ==
    LET q == a \div 10
        r == a % 10
    IN  IF r < 5 THEN q * 10
        ELSE IF r > 5 THEN (q + 1) * 10
        ELSE IF a \in Float64ScaledTie
             THEN (IF q % 2 = 0 THEN q * 10 ELSE (q + 1) * 10)
             ELSE IF a \in Float64Above THEN (q + 1) * 10 ELSE q * 10

\* Series.round(2)
NpRound2(m) == IF m < 0 THEN 0 - NpRoundAbs(0 - m) ELSE NpRoundAbs(m)

\* f"{x:.2f}": the text of x to two decimals, as a count of cents
Fmt2(m) == [blank |-> FALSE, cents |-> PyRound2(m) \div 10]
Blank == [blank |-> TRUE, cents |-> 0]

RECURSIVE SumOver(_, _)
\* Series.sum() of column f of a sequence of rows
SumOver(rows, f) ==
    IF rows = <<>> THEN 0 ELSE rows[1][f] + SumOver(Tail(rows), f)

(***************************************************************************)
(* Data frames: [present, rows]; None is an absent frame.                  *)
(***************************************************************************)
NoneDF == [present |-> FALSE, rows |-> <<>>]
DataFrame(rows) == [present |-> TRUE, rows |-> rows]

\* df[mask]: the rows whose entry of the boolean mask is TRUE, in their order
SelectRows(rows, mask) ==
    LET F[n \in 0..Len(rows)] ==
            IF n = 0 THEN <<>>
            ELSE IF mask[n] THEN Append(F[n - 1], rows[n]) ELSE F[n - 1]
    IN  F[Len(rows)]

\* dict(zip(keys, values))[k]: a later pair with the same key replaces an
\* earlier one, so the last pair with key k decides; NaN when no pair has it
DictLookup(keys, values, k) ==
    LET hits == {i \in 1..Len(keys) : keys[i] = k}
    IN  IF hits = {} THEN NaN
        ELSE Str(values[CHOOSE i \in hits : \A j \in hits : j <= i])

(***************************************************************************)
(* extract_data                                                            *)
(***************************************************************************)
MappingNames == <<"sam", "mam", "ma", "company", "ccm">>

sam == <<"s","a","m">>
mam == <<"m","a","m">>
ma == <<"m","a">>
company == <<"c","o","m","p","a","n","y">>
ccm == <<"c","c","m">>

\* the category a mapping file's name selects, "" for an unrecognized name
Category(name) ==
    LET fname == Lower(name)
    IN  IF Contains(sam, fname) THEN "sam"
        ELSE IF Contains(mam, fname) THEN "mam"
        ELSE IF Contains(ma, fname) THEN "ma"
        ELSE IF Contains(company, fname) THEN "company"
        ELSE IF Contains(ccm, fname) THEN "ccm"
        ELSE ""

\* temp_df[c] = temp_df[c].astype(str).str.strip() for every column c
StripColumns(rows) ==
    [i \in 1..Len(rows) |->
        [c \in DOMAIN rows[i] |-> Strip(AsTypeStr(rows[i][c]))]]

NoMaps == [c \in {"sam", "mam", "ma", "company", "ccm"} |-> NoneDF]

RECURSIVE LoadMappingFiles(_, _)
\* the loop over mapping_files: a later file of a category replaces an
\* earlier one
LoadMappingFiles(files, acc) ==
    IF files = <<>> THEN acc
    ELSE LET f == files[1]
             cat == Category(f.name)
         IN  LoadMappingFiles(Tail(files),
                 IF cat = "" THEN acc
                 ELSE [acc EXCEPT ![cat] = DataFrame(StripColumns(f.rows))])

\* st.info for every mapping file with an unrecognized name
SkippedInfos(files) ==
    LET skipped == SelectRows(files,
            [i \in 1..Len(files) |-> Category(files[i].name) = ""])
    IN  [i \in 1..Len(skipped) |->
            [kind |-> "info", text |-> <<"Skipped", "mapping", "file">>]]

\* core_df: the positional columns stripped, the DTL rows kept, Amount numeric
CoreRow(r) ==
    [Record_Type |-> Strip(r.Record_Type),
     Company_Code |-> Strip(r.Company_Code),
     RCO |-> Strip(r.RCO),
     RCC |-> Strip(r.RCC),
     GL_Account_GLA |-> Strip(r.GL_Account_GLA),
     EXTC |-> Strip(r.EXTC),
     Amount |-> to_numeric(Strip(r.Amount)),
     Product_Code |-> Strip(r.Product_Code)]

IsDTL(r) == Strip(r.Record_Type) = <<"D","T","L">>

CoreDf(rows) ==
    LET dtl == SelectRows(rows, [i \in 1..Len(rows) |-> IsDTL(rows[i])])
    IN  [i \in 1..Len(dtl) |-> CoreRow(dtl[i])]

MissingText ==
    <<"Missing", "one", "or", "more", "mapping", "files",
      "sam", "mam", "ma", "company", "ccm">>

\* if csv_file and mapping_files and product_file
Uploaded ==
    csv_file.present /\ mapping_files # <<>> /\ product_file.present

\* the check for absent tables with ccm_df left out of the list
AnyMappingNone_no_ccm ==
    \E c \in {"sam", "mam", "ma", "company"} :
        ~LoadMappingFiles(mapping_files, NoMaps)[c].present

AnyMappingNone ==
    \E c \in DOMAIN NoMaps : ~LoadMappingFiles(mapping_files, NoMaps)[c].present

\* the else branch of main: nothing runs, the upload prompt is shown
Prompt ==
    /\ pc = "start"
    /\ ~Uploaded
    /\ msg' = Append(msg, [kind |-> "info", text |-> <<"Please", "upload">>])
    /\ pc' = "done"
    /\ UNCHANGED <<csv_file, mapping_files, product_file, df, maps,
                   product_df, summary, unmatched, melted>>

extract_data ==
    /\ pc = "start"
    /\ Uploaded
    /\ ~AnyMappingNone
    /\ df' = DataFrame(CoreDf(csv_file.rows))
    /\ maps' = LoadMappingFiles(mapping_files, NoMaps)
    /\ msg' = msg \o SkippedInfos(mapping_files)
    /\ pc' = "extracted"
    /\ UNCHANGED <<csv_file, mapping_files, product_file, product_df,
                   summary, unmatched, melted>>

\* raise ValueError(...), caught by main and shown with st.error
extract_data_missing ==
    /\ pc = "start"
    /\ Uploaded
    /\ AnyMappingNone
    /\ msg' = Append(msg \o SkippedInfos(mapping_files),
                     [kind |-> "error", text |-> MissingText])
    /\ pc' = "done"
    /\ UNCHANGED <<csv_file, mapping_files, product_file, df, maps,
                   product_df, summary, unmatched, melted>>

(***************************************************************************)
(* load_product_mapping                                                    *)
(***************************************************************************)
\* drop_duplicates(subset=[key], keep="first")
DropDuplicates(rows, subset) ==
    LET F[n \in 0..Len(rows)] ==
            IF n = 0 THEN <<>>
            ELSE IF \E j \in 1..(n - 1) : rows[j][subset] = rows[n][subset]
                 THEN F[n - 1] ELSE Append(F[n - 1], rows[n])
    IN  F[Len(rows)]

CleanProductRows(rows) ==
    [i \in 1..Len(rows) |->
        [ATT_SLS_PRD_ID |-> Upper(Strip(AsTypeStr(rows[i].ATT_SLS_PRD_ID))),
         FIN_PRD_CD |-> Upper(Strip(AsTypeStr(rows[i].FIN_PRD_CD)))]]

ProductDf(rows) ==
    DropDuplicates(CleanProductRows(rows), "ATT_SLS_PRD_ID")

load_product_mapping ==
    /\ pc = "extracted"
    /\ product_file.has_columns
    /\ product_df' = DataFrame(ProductDf(product_file.rows))
    /\ pc' = "loaded"
    /\ UNCHANGED <<csv_file, mapping_files, product_file, df, maps,
                   summary, unmatched, melted, msg>>

\* the sheet lacks ATT_SLS_PRD_ID or FIN_PRD_CD: ValueError, shown by main
load_product_mapping_bad ==
    /\ pc = "extracted"
    /\ ~product_file.has_columns
    /\ msg' = Append(msg, [kind |-> "error",
                           text |-> <<"Product", "mapping", "sheet", "must",
                                      "contain", "columns", "ATT_SLS_PRD_ID",
                                      "FIN_PRD_CD">>])
    /\ pc' = "done"
    /\ UNCHANGED <<csv_file, mapping_files, product_file, df, maps,
                   product_df, summary, unmatched, melted>>

(***************************************************************************)
(* transform_data                                                          *)
(***************************************************************************)
Default000000 == <<"0","0","0","0","0","0">>
UNKNOWN == <<"U","N","K","N","O","W","N">>
NULL == <<"N","U","L","L">>
Zeros4 == <<"0","0","0","0">>
Zeros3 == <<"0","0","0">>
Zeros5 == <<"0","0","0","0","0">>
UNMATCHED == <<"U","N","M","A","T","C","H","E","D">>
MISSING == <<"M","I","S","S","I","N","G">>

ACCOUNT_TYPE_MAP(code) ==
    IF code = <<"L">> THEN Str(<<"L","i","a","b","i","l","i","t","y">>)
    ELSE IF code = <<"R">> THEN Str(<<"R","e","v","e","n","u","e">>)
    ELSE IF code = <<"O">> THEN Str(<<"O","t","h","e","r">>)
    ELSE IF code = <<"A">> THEN Str(<<"A","s","s","e","t">>)
    ELSE IF code = <<"E">> THEN Str(<<"E","x","p","e","n","s","e">>)
    ELSE NaN

\* EXTC_CLEAN of a mapping row: "*" is kept as the wildcard
MapExtcClean(x) == IF Strip(x) = <<"*">> THEN <<"*">> ELSE clean_str(Str(x))

\* map_with_wildcard_clean with the wildcard rows consulted before the exact
\* rows
map_with_wildcard_clean_wild_first(gl, extc, mapping_rows, map_col_name, default_val) ==
    LET gl_val == clean_str(Str(gl))
        etc_val == clean_str(Str(extc))
        GL_CLEAN == [i \in 1..Len(mapping_rows) |->
                        clean_str(Str(mapping_rows[i].GL_Account))]
        EXTC_CLEAN == [i \in 1..Len(mapping_rows) |->
                          MapExtcClean(mapping_rows[i].EXTC)]
        exact == SelectRows(mapping_rows,
                     [i \in 1..Len(mapping_rows) |->
                         GL_CLEAN[i] = gl_val /\ EXTC_CLEAN[i] = etc_val])
        wild == SelectRows(mapping_rows,
                     [i \in 1..Len(mapping_rows) |->
                         GL_CLEAN[i] = gl_val /\ EXTC_CLEAN[i] = <<"*">>])
        match == IF wild = <<>> THEN exact ELSE wild
    IN  IF match # <<>> THEN match[1][map_col_name] ELSE default_val

\* map_with_wildcard_clean for one record: the first exact row, else the
\* first wildcard row, else default_val
map_with_wildcard_clean(gl, extc, mapping_rows, map_col_name, default_val) ==
    LET gl_val == clean_str(Str(gl))
        etc_val == clean_str(Str(extc))
        GL_CLEAN == [i \in 1..Len(mapping_rows) |->
                        clean_str(Str(mapping_rows[i].GL_Account))]
        EXTC_CLEAN == [i \in 1..Len(mapping_rows) |->
                          MapExtcClean(mapping_rows[i].EXTC)]
        exact == SelectRows(mapping_rows,
                     [i \in 1..Len(mapping_rows) |->
                         GL_CLEAN[i] = gl_val /\ EXTC_CLEAN[i] = etc_val])
        wild == SelectRows(mapping_rows,
                     [i \in 1..Len(mapping_rows) |->
                         GL_CLEAN[i] = gl_val /\ EXTC_CLEAN[i] = <<"*">>])
        match == IF exact = <<>> THEN wild ELSE exact
    IN  IF match # <<>> THEN match[1][map_col_name] ELSE default_val

\* df["Debit"] without the rounding of each record
Debit_unrounded(x) == IF x > 0 THEN x ELSE 0

\* df["Debit"], df["Credit"], df["Amount"]
Debit(x) == IF x > 0 THEN PyRound2(x) ELSE 0
Credit(x) == IF x < 0 THEN PyRound2(Abs(x)) ELSE 0
RoundedAmount(x) == NpRound2(x)

\* df["Product"] without the replacement of "", UNMATCHED and MISSING
Product_no_replace(fin) == FillNa(fin, Zeros4).val

\* df["Product"]
Product(fin) ==
    LET filled == FillNa(fin, Zeros4).val
    IN  IF filled \in {<<>>, UNMATCHED, MISSING} THEN Zeros4 ELSE filled

\* the columns transform_data adds to one record
TransformRow(r, m, prod) ==
    LET GL_CLEAN == clean_str(Str(r.GL_Account_GLA))
        EXTC_CLEAN == clean_str(Str(r.EXTC))
        COMP_CLEAN == clean_str(Str(r.Company_Code))
        RCC == Strip(r.RCC)
        main == map_with_wildcard_clean(GL_CLEAN, EXTC_CLEAN, m["mam"].rows,
                                        "DTV_Main_Account", Default000000)
        sub == map_with_wildcard_clean(GL_CLEAN, EXTC_CLEAN, m["sam"].rows,
                                       "DTV_Sub_Account", Default000000)
        ma_df == m["ma"].rows
        code == FillNa(DictLookup(
                    [i \in 1..Len(ma_df) |-> clean_str(Str(ma_df[i].MainAccount))],
                    [i \in 1..Len(ma_df) |-> ma_df[i].AccountType],
                    clean_str(Str(main))), UNKNOWN).val
        label == FillNa(ACCOUNT_TYPE_MAP(code), code).val
        company_df == m["company"].rows
        comp == FillNa(DictLookup(
                    [i \in 1..Len(company_df) |->
                        clean_str(Str(company_df[i].ATT_Company))],
                    [i \in 1..Len(company_df) |-> company_df[i].DTV_Company],
                    COMP_CLEAN), NULL).val
        ccm_df == m["ccm"].rows
        cc == FillNa(DictLookup(
                  [i \in 1..Len(ccm_df) |->
                      Strip(ccm_df[i].RCC) \o <<"|">> \o Strip(ccm_df[i].AccountType)],
                  [i \in 1..Len(ccm_df) |-> ccm_df[i].DTV_Cost_Center],
                  Strip(RCC) \o <<"|">> \o Strip(code)), Default000000).val
        pcode == Upper(Strip(r.Product_Code))
        fin == DictLookup([i \in 1..Len(prod) |-> prod[i].ATT_SLS_PRD_ID],
                          [i \in 1..Len(prod) |-> prod[i].FIN_PRD_CD], pcode)
    IN  [Record_Type |-> r.Record_Type,
         Company_Code |-> r.Company_Code,
         RCO |-> Strip(r.RCO),
         RCC |-> RCC,
         GL_Account_GLA |-> r.GL_Account_GLA,
         EXTC |-> r.EXTC,
         GL_CLEAN |-> GL_CLEAN,
         EXTC_CLEAN |-> EXTC_CLEAN,
         COMP_CLEAN |-> COMP_CLEAN,
         DTV_Main_Account |-> main,
         DTV_Sub_Account |-> sub,
         AccountType_Code |-> code,
         AccountType |-> label,
         DTV_Company |-> comp,
         DTV_Cost_Center |-> cc,
         Product_Code |-> pcode,
         FIN_PRD_CD |-> fin,
         Product |-> Product(fin),
         Debit |-> Debit(r.Amount),
         Credit |-> Credit(r.Amount),
         Amount |-> RoundedAmount(r.Amount),
         Intercompany |-> Zeros4,
         TaxJurisdiction |-> Zeros3,
         Reserved1 |-> Zeros5,
         Reserved2 |-> Zeros5,
         Account |-> Join(<<comp, main, sub, cc, Zeros4, Product(fin),
                            Zeros3, Zeros5, Zeros5>>)]

ResolvedRows(rows, m, prod) ==
    [i \in 1..Len(rows) |-> TransformRow(rows[i], m, prod)]

\* the unmatched mask with the cost-center default tested as well
IsUnmatched_cost_center(r) ==
    \/ r.DTV_Main_Account = Default000000
    \/ r.DTV_Sub_Account = Default000000
    \/ r.DTV_Company = NULL
    \/ r.DTV_Cost_Center = Default000000
    \/ r.FIN_PRD_CD.isna

\* the mask of the unmatched frame
IsUnmatched(r) ==
    \/ r.DTV_Main_Account = Default000000
    \/ r.DTV_Sub_Account = Default000000
    \/ r.DTV_Company = NULL
    \/ r.FIN_PRD_CD.isna

\* the characters of the model in code-point order, for sorting group keys
Ascii == <<" ", "*", "-", ".">> \o Digits \o Uppers \o <<"_">> \o Lowers
              \o <<"|">>
CharCode(c) == CHOOSE i \in 1..Len(Ascii) : Ascii[i] = c

StrLess(a, b) ==
    \E i \in 1..(Len(b)) :
        /\ \A j \in 1..(i - 1) : j <= Len(a) /\ a[j] = b[j]
        /\ \/ i > Len(a)
           \/ CharCode(a[i]) < CharCode(b[i])

\* NaN sorts after every string
CellLess(a, b) ==
    IF a.isna THEN FALSE ELSE IF b.isna THEN TRUE ELSE StrLess(a.val, b.val)

GroupKey(r) ==
    <<r.DTV_Company, r.DTV_Main_Account, r.AccountType, r.DTV_Sub_Account,
      r.DTV_Cost_Center, r.FIN_PRD_CD>>

KeyLess(a, b) ==
    \E i \in 1..6 :
        /\ \A j \in 1..(i - 1) : a[j] = b[j]
        /\ IF i = 6 THEN CellLess(a[i], b[i]) ELSE StrLess(a[i], b[i])

RECURSIVE SortKeys(_)
SortKeys(S) ==
    IF S = {} THEN <<>>
    ELSE LET mn == CHOOSE k \in S : \A o \in S \ {k} : KeyLess(k, o)
         IN  <<mn>> \o SortKeys(S \ {mn})

\* the groups of groupby with its default dropna=True: NaN keys are dropped
GroupKeys_dropna(rows) ==
    {GroupKey(rows[i]) : i \in {j \in 1..Len(rows) : ~rows[j].FIN_PRD_CD.isna}}

\* the groups of groupby(..., dropna=False): a NaN FIN_PRD_CD is a key too
GroupKeys(rows) == {GroupKey(rows[i]) : i \in 1..Len(rows)}

\* one row of summary: the sums of the group, rounded, and its Account text
SummaryRow(k, rows) ==
    LET members == SelectRows(rows,
                       [i \in 1..Len(rows) |-> GroupKey(rows[i]) = k])
    IN  [DTV_Company |-> k[1],
         DTV_Main_Account |-> k[2],
         AccountType |-> k[3],
         DTV_Sub_Account |-> k[4],
         DTV_Cost_Center |-> k[5],
         FIN_PRD_CD |-> k[6],
         Debit |-> NpRound2(SumOver(members, "Debit")),
         Credit |-> NpRound2(SumOver(members, "Credit")),
         Account |-> IF k[6].isna THEN NaN
                     ELSE Str(Join(<<k[1], k[2], k[4], k[3], k[5], Zeros4,
                                     k[6].val, Zeros3, Zeros5, Zeros5>>))]

\* df.groupby([...], dropna=False, as_index=False).agg(sum), rounded
Summary(rows) ==
    LET keys == SortKeys(GroupKeys(rows))
    IN  [i \in 1..Len(keys) |-> SummaryRow(keys[i], rows)]

transform_data ==
    /\ pc = "loaded"
    /\ LET resolved == ResolvedRows(df.rows, maps, product_df.rows)
       IN  /\ df' = DataFrame(resolved)
           /\ unmatched' = DataFrame(SelectRows(resolved,
                  [i \in 1..Len(resolved) |-> IsUnmatched(resolved[i])]))
           /\ summary' = DataFrame(Summary(resolved))
    /\ pc' = "transformed"
    /\ UNCHANGED <<csv_file, mapping_files, product_file, maps, product_df,
                   melted, msg>>

(***************************************************************************)
(* prepare_debit_credit_rows and load_summary                              *)
(***************************************************************************)
DebitLine(row) == [row EXCEPT !.Debit = Fmt2(row.Debit), !.Credit = Blank]
CreditLine(row) == [row EXCEPT !.Debit = Blank, !.Credit = Fmt2(row.Credit)]

RECURSIVE prepare_debit_credit_rows_elif(_)
\* the credit line emitted only when there is no debit line
prepare_debit_credit_rows_elif(rows) ==
    IF rows = <<>> THEN <<>>
    ELSE (IF rows[1].Debit # 0 THEN <<DebitLine(rows[1])>>
          ELSE IF rows[1].Credit # 0 THEN <<CreditLine(rows[1])>> ELSE <<>>)
         \o prepare_debit_credit_rows_elif(Tail(rows))

RECURSIVE prepare_debit_credit_rows(_)
prepare_debit_credit_rows(rows) ==
    IF rows = <<>> THEN <<>>
    ELSE (IF rows[1].Debit # 0 THEN <<DebitLine(rows[1])>> ELSE <<>>)
         \o (IF rows[1].Credit # 0 THEN <<CreditLine(rows[1])>> ELSE <<>>)
         \o prepare_debit_credit_rows(Tail(rows))

TOTAL == <<"T","O","T","A","L">>

\* every other column of the totals row is the empty text
totals_row(total_debit, total_credit) ==
    [DTV_Company |-> TOTAL,
     DTV_Main_Account |-> <<>>,
     AccountType |-> <<>>,
     DTV_Sub_Account |-> <<>>,
     DTV_Cost_Center |-> <<>>,
     FIN_PRD_CD |-> Str(<<>>),
     Debit |-> Fmt2(total_debit),
     Credit |-> Fmt2(total_credit),
     Account |-> Str(<<>>)]

Melted(rows, sum_rows) ==
    Append(prepare_debit_credit_rows(sum_rows),
           totals_row(SumOver(rows, "Debit"), SumOver(rows, "Credit")))

load_summary ==
    /\ pc = "transformed"
    /\ melted' = DataFrame(Melted(df.rows, summary.rows))
    /\ msg' = Append(msg, [kind |-> "success",
                           text |-> <<"ETL", "process", "completed">>])
    /\ pc' = "done"
    /\ UNCHANGED <<csv_file, mapping_files, product_file, df, maps,
                   product_df, summary, unmatched>>

(***************************************************************************)
(* Inputs: the uploaded files                                              *)
(***************************************************************************)
SeqsUpTo(S, n) == UNION {[1..k -> S] : k \in 0..n}

\* the reference rule tables, as read from the mapping files
BaseMam ==
    <<[GL_Account |-> Str(<<"4">>), EXTC |-> Str(<<"*">>),
       DTV_Main_Account |-> Str(<<"M","9">>)],
      [GL_Account |-> Str(<<"4">>), EXTC |-> Str(<<"A">>),
       DTV_Main_Account |-> Str(<<"M","1">>)]>>

BaseSam ==
    <<[GL_Account |-> Str(<<"4">>), EXTC |-> Str(<<"A">>),
       DTV_Sub_Account |-> Str(<<"S","1">>)],
      [GL_Account |-> Str(<<"4">>), EXTC |-> Str(<<"*">>),
       DTV_Sub_Account |-> Str(<<"S","9">>)]>>

BaseMa ==
    <<[MainAccount |-> Str(<<"M","1">>), AccountType |-> Str(<<"A">>)]>>

BaseCompany ==
    <<[ATT_Company |-> Str(<<"C","1">>), DTV_Company |-> Str(<<"D","1">>)]>>

BaseCcm ==
    <<[RCC |-> Str(<<"R","1">>), AccountType |-> Str(<<"A">>),
       DTV_Cost_Center |-> Str(<<"K","1">>)]>>

BaseProduct ==
    <<[ATT_SLS_PRD_ID |-> Str(<<"P","1">>), FIN_PRD_CD |-> Str(<<"F","1">>)],
      [ATT_SLS_PRD_ID |-> Str(<<"P","M">>), FIN_PRD_CD |-> Str(MISSING)],
      [ATT_SLS_PRD_ID |-> Str(<<"P","S">>), FIN_PRD_CD |-> Str(<<"F","*">>)],
      [ATT_SLS_PRD_ID |-> Str(<<"P","0">>), FIN_PRD_CD |-> Str(Zeros4)]>>

FileName(cat) ==
    IF cat = "sam" THEN <<"S","A","M","_","D","B">>
    ELSE IF cat = "mam" THEN <<"M","A","M","_","D","B">>
    ELSE IF cat = "ma" THEN <<"M","A","_","D","B">>
    ELSE IF cat = "company" THEN <<"C","O","M","P","A","N","Y","_","D","B">>
    ELSE IF cat = "ccm" THEN <<"C","C","M","_","D","B">>
    ELSE <<"n","o","t","e","s">>

BaseRows(cat) ==
    IF cat = "sam" THEN BaseSam
    ELSE IF cat = "mam" THEN BaseMam
    ELSE IF cat = "ma" THEN BaseMa
    ELSE IF cat = "company" THEN BaseCompany
    ELSE IF cat = "ccm" THEN BaseCcm
    ELSE <<>>

File(cat) == [name |-> FileName(cat), rows |-> BaseRows(cat)]

AllCats == {MappingNames[i] : i \in 1..5}

\* the mapping files of the categories in cats, in upload order
FilesOf(cats) ==
    LET picked == SelectRows(MappingNames,
                      [i \in 1..5 |-> MappingNames[i] \in cats])
    IN  [i \in 1..Len(picked) |-> File(picked[i])]

\* every category, every category but one, or none; with or without a file
\* of an unrecognized name
MappingUploads ==
    {FilesOf(cats) \o extra :
        cats \in {AllCats, {}} \cup {AllCats \ {c} : c \in AllCats},
        extra \in {<<>>, <<File("")>>}}

ProductUploads ==
    {[present |-> FALSE, has_columns |-> FALSE, rows |-> <<>>],
     [present |-> TRUE, has_columns |-> FALSE, rows |-> <<>>],
     [present |-> TRUE, has_columns |-> TRUE, rows |-> BaseProduct]}

Record(type, comp, gl, extc, rcc, prod, amount) ==
    [Record_Type |-> type, Company_Code |-> comp, RCO |-> <<"O","1">>,
     RCC |-> rcc, GL_Account_GLA |-> gl, EXTC |-> extc, Amount |-> amount,
     Product_Code |-> prod]

DTL == <<"D","T","L">>
Amt150 == <<"1","5","0",".","0","0">>
AmtNeg50 == <<"-","5","0",".","0","0">>

\* transaction rows: every stage matched; main and sub by wildcard (no
\* account type, no cost center) with a product mapped to MISSING; unknown
\* GL account with a product mapped to 0000; unknown company with a product
\* mapped to a code holding '*'; unknown product; a header row
Records ==
    {Record(DTL, <<" ","c","1">>, <<"4">>, <<"a">>, <<"R","1">>,
            <<"p","1"," ">>, Amt150),
     Record(DTL, <<"C","1">>, <<"4">>, <<"7">>, <<"R","1">>,
            <<"P","M">>, AmtNeg50),
     Record(DTL, <<"C","1">>, <<"9">>, <<"a">>, <<"R","1">>,
            <<"P","0">>, Amt150),
     Record(DTL, <<"Z","Z">>, <<"4">>, <<"a">>, <<"R","1">>,
            <<"P","S">>, AmtNeg50),
     Record(DTL, <<"C","1">>, <<"4">>, <<"a">>, <<"R","1">>,
            <<"P","9">>, Amt150),
     Record(<<"H","D","R">>, <<"C","1">>, <<"4">>, <<"a">>, <<"R","1">>,
            <<"P","1">>, Amt150)}

CsvUploads(records) ==
    {[present |-> FALSE, rows |-> <<>>]}
    \cup {[present |-> TRUE, rows |-> rs] : rs \in SeqsUpTo(records, MaxRecords)}

InitState ==
    /\ pc = "start"
    /\ df = NoneDF
    /\ maps = NoMaps
    /\ product_df = NoneDF
    /\ summary = NoneDF
    /\ unmatched = NoneDF
    /\ melted = NoneDF
    /\ msg = <<>>

Init ==
    /\ csv_file \in CsvUploads(Records)
    /\ mapping_files \in MappingUploads
    /\ product_file \in ProductUploads
    /\ InitState

Next ==
    \/ Prompt
    \/ extract_data
    \/ extract_data_missing
    \/ load_product_mapping
    \/ load_product_mapping_bad
    \/ transform_data
    \/ load_summary

Spec == Init /\ [][Next]_vars

(***************************************************************************)
(* Complete uploads with one rule table varied over every bounded row      *)
(* sequence, the others being the reference tables                         *)
(***************************************************************************)
MamRows ==
    {[GL_Account |-> Str(g), EXTC |-> Str(e), DTV_Main_Account |-> Str(t)] :
        g \in {<<"4">>, <<"9">>}, e \in {<<"A">>, <<"*">>},
        t \in {<<"M","1">>, <<"M","2">>}}

SamRows ==
    {[GL_Account |-> Str(g), EXTC |-> Str(e), DTV_Sub_Account |-> Str(t)] :
        g \in {<<"4">>, <<"9">>}, e \in {<<"A">>, <<"*">>},
        t \in {<<"S","1">>, <<"S","2">>}}

MaRows ==
    {[MainAccount |-> Str(k), AccountType |-> Str(t)] :
        k \in {<<"M","1">>, <<"m","1">>}, t \in {<<"A">>, <<"L">>}}

CompanyRows ==
    {[ATT_Company |-> Str(k), DTV_Company |-> Str(t)] :
        k \in {<<"C","1">>, <<"c","1">>}, t \in {<<"D","1">>, <<"D","2">>}}

CcmRows ==
    {[RCC |-> Str(k), AccountType |-> Str(<<"A">>), DTV_Cost_Center |-> Str(t)] :
        k \in {<<"R","1">>, <<"r","1">>}, t \in {<<"K","1">>, <<"K","2">>}}

ProductRows ==
    {[ATT_SLS_PRD_ID |-> Str(k), FIN_PRD_CD |-> t] :
        k \in {<<"P","1">>, <<"p","1">>}, t \in {Str(<<"F","1">>), Str(<<"F","2">>), NaN}}

RowsOf(cat) ==
    IF cat = "sam" THEN SamRows
    ELSE IF cat = "mam" THEN MamRows
    ELSE IF cat = "ma" THEN MaRows
    ELSE IF cat = "company" THEN CompanyRows
    ELSE CcmRows

\* the five mapping files, the one of category cat holding rows
FilesWith(cat, rows) ==
    [i \in 1..5 |->
        IF MappingNames[i] = cat
        THEN [name |-> FileName(cat), rows |-> rows]
        ELSE File(MappingNames[i])]

ProductOk(rows) == [present |-> TRUE, has_columns |-> TRUE, rows |-> rows]

TableRecords ==
    {Record(DTL, <<"c","1">>, <<"4">>, <<"a">>, <<"R","1">>, <<"p","1">>, Amt150),
     Record(DTL, <<"C","1">>, <<"4">>, <<"7">>, <<"R","1">>, <<"P","1">>, Amt150)}

InitTables ==
    /\ InitState
    /\ csv_file \in {[present |-> TRUE, rows |-> <<r>>] : r \in TableRecords}
    /\ \/ /\ \E cat \in AllCats :
                mapping_files \in
                    {FilesWith(cat, rs) : rs \in SeqsUpTo(RowsOf(cat), MaxRows)}
          /\ product_file = ProductOk(BaseProduct)
       \/ /\ mapping_files = FilesOf(AllCats)
          /\ product_file \in
                 {ProductOk(rs) : rs \in SeqsUpTo(ProductRows, MaxRows)}

\* the steps of a run whose upload is complete
NextRun ==
    \/ extract_data
    \/ load_product_mapping
    \/ transform_data
    \/ load_summary

SpecTables == InitTables /\ [][NextRun]_vars

(***************************************************************************)
(* Complete uploads of the reference tables with the amounts varied        *)
(***************************************************************************)
Amounts ==
    {Amt150, AmtNeg50, <<"0",".","0","0","4">>, <<"0",".","0","0","5">>,
     <<"-","0",".","0","1","5">>, <<"0">>, <<>>, <<"n","/","a">>}

AmountRecords ==
    {Record(DTL, <<"C","1">>, <<"4">>, <<"a">>, <<"R","1">>, <<"P","1">>, a) :
        a \in Amounts}
    \cup {Record(DTL, <<"C","1">>, <<"4">>, <<"a">>, <<"R","1">>, <<"P","9">>, a) :
        a \in {Amt150, AmtNeg50}}

InitAmounts ==
    /\ InitState
    /\ csv_file \in {[present |-> TRUE, rows |-> rs] :
                        rs \in SeqsUpTo(AmountRecords, MaxRecords)}
    /\ mapping_files = FilesOf(AllCats)
    /\ product_file = ProductOk(BaseProduct)

SpecAmounts == InitAmounts /\ [][NextRun]_vars

(***************************************************************************)
(* Properties                                                              *)
(***************************************************************************)
\* transform_data has run: df holds the resolved records
Resolved == pc \in {"transformed", "done"} /\ summary.present

Min(S) == CHOOSE i \in S : \A j \in S : i <= j

\* the rows of a wildcard-capable table whose normalized (GL Account, EXTC)
\* is the record's, and its wildcard rows for the record's GL account
ExactRows(r, rows) ==
    {i \in 1..Len(rows) :
        /\ Upper(Strip(rows[i].GL_Account)) = Upper(Strip(r.GL_Account_GLA))
        /\ Upper(Strip(rows[i].EXTC)) = Upper(Strip(r.EXTC))}

WildRows(r, rows) ==
    {i \in 1..Len(rows) :
        /\ Upper(Strip(rows[i].GL_Account)) = Upper(Strip(r.GL_Account_GLA))
        /\ rows[i].EXTC = <<"*">>}

ExactThenWildcard(r, rows, col, got) ==
    IF ExactRows(r, rows) # {} THEN got = rows[Min(ExactRows(r, rows))][col]
    ELSE IF WildRows(r, rows) # {} THEN got = rows[Min(WildRows(r, rows))][col]
    ELSE got = Default000000

\* C1: for the main-account and the sub-account stage, a record resolves to
\* the target of the (first) row whose normalized (GL Account, EXTC) equals
\* its own, whatever wildcard rows the table holds and in whatever order;
\* without such a row, to the target of the (first) wildcard row of its GL
\* account; without either, to "000000".
C1_ExactBeforeWildcard ==
    Resolved =>
        \A i \in 1..Len(df.rows) :
            /\ ExactThenWildcard(df.rows[i], maps["mam"].rows,
                                 "DTV_Main_Account", df.rows[i].DTV_Main_Account)
            /\ ExactThenWildcard(df.rows[i], maps["sam"].rows,
                                 "DTV_Sub_Account", df.rows[i].DTV_Sub_Account)

\* a wildcard row precedes an exact row of another target, and the record
\* has the exact row's target
C1_Witness ==
    /\ Resolved
    /\ \E i \in 1..Len(df.rows) :
         LET r == df.rows[i]
             rows == maps["mam"].rows
         IN  \E e \in ExactRows(r, rows), w \in WildRows(r, rows) :
                /\ w < e
                /\ rows[w].DTV_Main_Account # rows[e].DTV_Main_Account
                /\ r.DTV_Main_Account = rows[e].DTV_Main_Account

\* the rows of a single-key table with the record's key
MaKeyRows(r) ==
    {i \in 1..Len(maps["ma"].rows) :
        Upper(Strip(maps["ma"].rows[i].MainAccount))
            = Upper(Strip(r.DTV_Main_Account))}

CompanyKeyRows(r) ==
    {i \in 1..Len(maps["company"].rows) :
        Upper(Strip(maps["company"].rows[i].ATT_Company))
            = Upper(Strip(r.Company_Code))}

CcmKeyRows(r) ==
    {i \in 1..Len(maps["ccm"].rows) :
        /\ maps["ccm"].rows[i].RCC = r.RCC
        /\ maps["ccm"].rows[i].AccountType = r.AccountType_Code}

ProductKeyRows(r) ==
    {i \in 1..Len(product_file.rows) :
        Upper(Strip(AsTypeStr(product_file.rows[i].ATT_SLS_PRD_ID)))
            = Upper(Strip(r.Product_Code))}

\* C2: in each of the six rule tables a lookup of a key returns the target
\* of the first row with that key; later rows with the key are shadowed.
C2_FirstRowWins ==
    Resolved =>
        \A i \in 1..Len(df.rows) :
            LET r == df.rows[i]
            IN  /\ ExactThenWildcard(r, maps["mam"].rows, "DTV_Main_Account",
                                     r.DTV_Main_Account)
                /\ ExactThenWildcard(r, maps["sam"].rows, "DTV_Sub_Account",
                                     r.DTV_Sub_Account)
                /\ MaKeyRows(r) # {} =>
                       r.AccountType_Code
                           = maps["ma"].rows[Min(MaKeyRows(r))].AccountType
                /\ CompanyKeyRows(r) # {} =>
                       r.DTV_Company
                           = maps["company"].rows[Min(CompanyKeyRows(r))].DTV_Company
                /\ CcmKeyRows(r) # {} =>
                       r.DTV_Cost_Center
                           = maps["ccm"].rows[Min(CcmKeyRows(r))].DTV_Cost_Center
                /\ ProductKeyRows(r) # {} =>
                       r.FIN_PRD_CD
                           = Str(Upper(Strip(AsTypeStr(
                                 product_file.rows[Min(ProductKeyRows(r))].FIN_PRD_CD))))

\* the product lookup of a resolved record found no row
ProductUnresolved(r) ==
    \A j \in 1..Len(product_df.rows) :
        product_df.rows[j].ATT_SLS_PRD_ID # Upper(Strip(r.Product_Code))

Flagged(r) ==
    \/ r.DTV_Main_Account = Default000000
    \/ r.DTV_Sub_Account = Default000000
    \/ r.DTV_Company = NULL
    \/ ProductUnresolved(r)

\* C3: the unmatched table holds exactly the resolved records whose main
\* account is "000000", whose sub account is "000000", whose company is
\* "NULL" or whose product lookup is unresolved; a record with only the
\* account-type and cost-center defaults is not in it.
C3_UnmatchedExactly ==
    Resolved =>
        /\ unmatched.present
        /\ unmatched.rows
               = SelectRows(df.rows, [i \in 1..Len(df.rows) |-> Flagged(df.rows[i])])
        /\ \A i \in 1..Len(df.rows) :
               (/\ ~Flagged(df.rows[i])
                /\ df.rows[i].AccountType_Code = UNKNOWN
                /\ df.rows[i].DTV_Cost_Center = Default000000)
               => \A j \in 1..Len(unmatched.rows) : unmatched.rows[j] # df.rows[i]

\* one record with only the account-type and cost-center defaults, left out,
\* and one flagged record, reported
C3_Witness ==
    /\ Resolved
    /\ \E i, k \in 1..Len(df.rows) :
          /\ ~Flagged(df.rows[i])
          /\ df.rows[i].AccountType_Code = UNKNOWN
          /\ df.rows[i].DTV_Cost_Center = Default000000
          /\ Flagged(df.rows[k])
          /\ unmatched.rows = <<df.rows[k]>>

\* the categories no uploaded mapping file is recognized as
MissingCats ==
    AllCats \ {Category(mapping_files[i].name) : i \in 1..Len(mapping_files)}

ErrorMsgs == SelectRows(msg, [i \in 1..Len(msg) |-> msg[i].kind = "error"])

Words(text) == {text[i] : i \in 1..Len(text)}

\* no record was resolved and no output table exists
NoOutput ==
    /\ ~Resolved
    /\ pc # "transformed"
    /\ df.present => df.rows = CoreDf(csv_file.rows)
    /\ summary = NoneDF
    /\ unmatched = NoneDF
    /\ melted = NoneDF

C5_DebitCreditSplit ==
    Resolved =>
        \A i \in 1..Len(df.rows) :
            LET r == df.rows[i]
            IN  /\ r.Amount = r.Debit - r.Credit
                /\ r.Debit >= 0
                /\ r.Credit >= 0
                /\ ~(r.Debit > 0 /\ r.Credit > 0)
                /\ (r.Debit = 0 /\ r.Credit = 0) => r.Amount = 0

\* the signed input amounts of the DTL rows, as parsed
OriginalAmounts == SumOver(CoreDf(csv_file.rows), "Amount")

\* C6: over the resolved records of a run, the sum of debit minus the sum of
\* credit equals the sum of the original signed amounts exactly.
C6_NetConservation ==
    Resolved =>
        SumOver(df.rows, "Debit") - SumOver(df.rows, "Credit") = OriginalAmounts

Members(k) ==
    SelectRows(df.rows, [i \in 1..Len(df.rows) |-> GroupKey(df.rows[i]) = k])

\* v is x rounded to two decimals
RoundedTo2(v, x) == v % 10 = 0 /\ Abs(v - x) <= 5

\* C7: every resolved record, one with an unresolved product included, is a
\* member of exactly one summary row, the row of its six-field key; and the
\* debit and credit of every summary row are the sums of its members' debit
\* and credit, rounded to two decimals.
C7_SummaryRows ==
    Resolved =>
        /\ \A i \in 1..Len(df.rows) :
               Cardinality({j \in 1..Len(summary.rows) :
                   GroupKey(summary.rows[j]) = GroupKey(df.rows[i])}) = 1
        /\ \A j \in 1..Len(summary.rows) :
               LET m == Members(GroupKey(summary.rows[j]))
               IN  /\ m # <<>>
                   /\ RoundedTo2(summary.rows[j].Debit, SumOver(m, "Debit"))
                   /\ RoundedTo2(summary.rows[j].Credit, SumOver(m, "Credit"))

\* a summary row of two records with an unresolved product, one a debit and
\* one a credit
C7_Witness ==
    /\ Resolved
    /\ \E j \in 1..Len(summary.rows) :
          /\ summary.rows[j].FIN_PRD_CD.isna
          /\ Len(Members(GroupKey(summary.rows[j]))) = 2
          /\ summary.rows[j].Debit > 0
          /\ summary.rows[j].Credit > 0

HasStar(x) == \E i \in 1..Len(x) : x[i] = "*"

\* the nine segments of a record whose product segment is p
Segments(r, p) ==
    <<r.DTV_Company, r.DTV_Main_Account, r.DTV_Sub_Account, r.DTV_Cost_Center,
      Zeros4, p, Zeros3, Zeros5, Zeros5>>

\* C8 as stated: the Account string of every resolved record is its nine
\* segments in the fixed order, the product segment being the resolved
\* financial product code when the lookup succeeded and "0000" when, and
\* only when, it was unresolved.
C8_NineSegments ==
    Resolved =>
        \A i \in 1..Len(df.rows) :
            LET r == df.rows[i]
                p == IF ProductUnresolved(r) THEN Zeros4 ELSE r.FIN_PRD_CD.val
            IN  /\ Split(r.Account) = Segments(r, p)
                /\ Split(r.Account)[6] = Zeros4 <=> ProductUnresolved(r)

\* the product segment the code displays
DisplayedProduct(r) ==
    IF ProductUnresolved(r) THEN Zeros4
    ELSE IF r.FIN_PRD_CD.val \in {<<>>, UNMATCHED, MISSING} THEN Zeros4
    ELSE r.FIN_PRD_CD.val

\* C8 amended: the Account string of a resolved record none of whose segment
\* values holds '*' is its nine segments in the fixed order, the product
\* segment being "0000" when the lookup was unresolved or resolved to "",
\* "UNMATCHED" or "MISSING", and the resolved code otherwise (which may
\* itself be "0000"); a '*' inside a segment value yields more segments.
C8_NineSegmentsDisplayed ==
    Resolved =>
        \A i \in 1..Len(df.rows) :
            LET r == df.rows[i]
                segs == Segments(r, DisplayedProduct(r))
            IN  IF \E k \in 1..9 : HasStar(segs[k])
                THEN Len(Split(r.Account)) > 9
                ELSE Split(r.Account) = segs

\* a record whose product resolved to MISSING shows "0000", and another one
\* shows its resolved code
C8_Witness ==
    /\ Resolved
    /\ \E i, k \in 1..Len(df.rows) :
          /\ df.rows[i].FIN_PRD_CD = Str(MISSING)
          /\ Split(df.rows[i].Account)[6] = Zeros4
          /\ df.rows[k].FIN_PRD_CD = Str(<<"F","1">>)
          /\ Split(df.rows[k].Account)[6] = <<"F","1">>
          /\ Len(Split(df.rows[k].Account)) = 9

\* the rows of a summary as a set of (key, debit, credit)
RowSet(rows) ==
    {<<GroupKey(rows[i]), rows[i].Debit, rows[i].Credit>> : i \in 1..Len(rows)}

Permutations(n) ==
    {f \in [1..n -> 1..n] : \A a, b \in 1..n : f[a] = f[b] => a = b}

\* the records that assignment g sends to shard k, in their order
Shard(rows, g, k) ==
    LET F[n \in 0..Len(rows)] ==
            IF n = 0 THEN <<>>
            ELSE IF g[n] = k THEN Append(F[n - 1], rows[n]) ELSE F[n - 1]
    IN  F[Len(rows)]

\* the per-key sums of column f over the summaries of shards 1..n
PartialSum(rows, g, key, f) ==
    LET P[k \in 0..Len(rows)] ==
            IF k = 0 THEN 0
            ELSE P[k - 1]
                 + (LET part == Summary(Shard(rows, g, k))
                    IN  SumOver(SelectRows(part,
                            [i \in 1..Len(part) |-> GroupKey(part[i]) = key]), f))
    IN  P[Len(rows)]

Merged(rows, g) ==
    {<<key, PartialSum(rows, g, key, "Debit"), PartialSum(rows, g, key, "Credit")>> :
        key \in {GroupKey(rows[i]) : i \in 1..Len(rows)}}

RECURSIVE SumCents(_, _)
SumCents(lines, f) ==
    IF lines = <<>> THEN 0
    ELSE (IF lines[1][f].blank THEN 0 ELSE lines[1][f].cents)
         + SumCents(Tail(lines), f)

\* the lines of the report that belong to the summary row of key k
LinesOf(lines, k) ==
    SelectRows(lines, [i \in 1..Len(lines) |-> GroupKey(lines[i]) = k])

\* C10: the grouped-summary report holds, for each summary row, one line
\* with the debit filled and the credit blank iff its debit is non-zero and
\* one line with the credit filled and the debit blank iff its credit is
\* non-zero, then exactly one TOTAL row, last, whose debit and credit are
\* the sums of the debit and credit values of the lines.
C10_Report ==
    (pc = "done" /\ melted.present) =>
        LET n == Len(melted.rows)
            lines == SubSeq(melted.rows, 1, n - 1)
            total == melted.rows[n]
        IN  /\ n >= 1
            /\ total.DTV_Company = TOTAL
            /\ \A i \in 1..(n - 1) :
                   /\ lines[i].DTV_Company # TOTAL
                   /\ lines[i].Debit.blank # lines[i].Credit.blank
                   /\ \E j \in 1..Len(summary.rows) :
                          GroupKey(summary.rows[j]) = GroupKey(lines[i])
            /\ \A j \in 1..Len(summary.rows) :
                   LET row == summary.rows[j]
                       mine == LinesOf(lines, GroupKey(row))
                       debits == SelectRows(mine,
                           [i \in 1..Len(mine) |-> ~mine[i].Debit.blank])
                       credits == SelectRows(mine,
                           [i \in 1..Len(mine) |-> ~mine[i].Credit.blank])
                   IN  /\ Len(debits) = (IF row.Debit # 0 THEN 1 ELSE 0)
                       /\ Len(credits) = (IF row.Credit # 0 THEN 1 ELSE 0)
                       /\ \A d \in 1..Len(debits) :
                              debits[d].Debit.cents * 10 = row.Debit
                       /\ \A c \in 1..Len(credits) :
                              credits[c].Credit.cents * 10 = row.Credit
            /\ ~total.Debit.blank
            /\ ~total.Credit.blank
            /\ total.Debit.cents = SumCents(lines, "Debit")
            /\ total.Credit.cents = SumCents(lines, "Credit")

\* a report with the debit line and the credit line of one summary row and
\* the TOTAL row
C10_Witness ==
    /\ pc = "done"
    /\ melted.present
    /\ Len(summary.rows) = 1
    /\ summary.rows[1].Debit # 0
    /\ summary.rows[1].Credit # 0
    /\ Len(melted.rows) = 3

====
